---------------------------- MODULE Spec2Model ----------------------------
(***************************************************************************)
(* Model of the W8BH NTP clock (WA2FZW / AI6P revision) configuration:     *)
(*   Software/NTP_Dual_Clock_Solar_V3.1/UserSettings.h                      *)
(*   User_Setup FIles/ESP32_Cheap_Yellow_Display.h                          *)
(*   User_Setup FIles/ESP32_NTP_Clock_Setup.h                               *)
(*   User_Setup FIles/ESP8266_Generic_Setup.h                               *)
(*                                                                         *)
(* The headers are translated define by define.  The firmware sketch that  *)
(* consumes them is not among the source files; the parts of it that the   *)
(* headers document (WiFi start-up scan, time zone rotation, solar data    *)
(* rotation) are modelled from that documentation and are marked           *)
(* "documented behaviour" below.  How readings are coloured is not         *)
(* modelled: the header documents the MEDIUM breakpoint both as "4 or       *)
(* higher" (lines 128-130) and as "Above 4" (line 146).                     *)
(***************************************************************************)
EXTENDS Integers, Sequences, FiniteSets

VARIABLES
    board,          \* which TFT_eSPI setup file the build uses
    wifiList,       \* the ssid_pwd array of the build
    wifiIndex,      \* index of the ssid_pwd entry tried last
    wifiStatus,     \* "idle" | "trying" | "failed" | "connected"
    running,        \* TRUE once the clock display is running
    sec,            \* second of the minute shown by the clock
    tzIndex,        \* index into timeZones of the zone on screen
    tzShown,        \* whole seconds the zone has been on screen
    tzWhole,        \* the zone went on screen on a multiple of TZ_INTERVAL
    dataIndex,      \* index (0-based) of the solar data item on screen
    dataShown,      \* whole seconds the item has been on screen
    dataWhole,      \* the item went on screen on a multiple of CYCLE_TIME
    arrRows,        \* ELEMENTS probe: number of rows of the array
    arrRowSize,     \* ELEMENTS probe: sizeof one row
    elemCount,      \* ELEMENTS probe: value of ELEMENTS(x), -1 before
    elemStored      \* ELEMENTS probe: the value kept in a uint8_t, -1 before

fwVars    == <<board, wifiList, wifiIndex, wifiStatus, running, sec,
               tzIndex, tzShown, tzWhole, dataIndex, dataShown, dataWhole>>
elemVars  == <<arrRows, arrRowSize, elemCount, elemStored>>
vars      == <<fwVars, elemVars>>

-----------------------------------------------------------------------------
(* Bounds of the model *)

MaxNets    == 3      \* most ssid_pwd lines un-commented in a build
MaxRows    == 257    \* most rows of an array given to ELEMENTS
MaxRowSize == 3      \* row sizes 1..MaxRowSize are tried beside the real one

-----------------------------------------------------------------------------
(* UserSettings.h : ELEMENTS, wifiData, ssid_pwd *)

\* sizeof of a two-dimensional array  T x[rows][rowSize]  of 1-byte elements
SizeofArray(rows, rowSize) == rows * rowSize

\* variant: dividing by the size of one element, sizeof(x[0][0]) = 1
ELEMENTS_ByElement(sizeofX, sizeofX0) == sizeofX

\* #define ELEMENTS(x) ( sizeof ( x ) / sizeof ( x[0] ))
ELEMENTS(sizeofX, sizeofX0) == sizeofX \div sizeofX0

\* conversion of a count to uint8_t
ToUint8(n) == n % 256

\* the initializer lines of ssid_pwd, the active one and the commented models
WifiLines ==
    << <<"SSID_1", "PWD_1">>,
       <<"SSID_2", "PWD_2">>,
       <<"SSID_3", "PWD_3">>,
       <<"SSID_4", "PWD_4">>,
       <<"SSID_5", "PWD_5">> >>

RECURSIVE Flatten(_)
Flatten(lines) ==
    IF lines = <<>> THEN <<>> ELSE Head(lines) \o Flatten(Tail(lines))

\* the brace-elided initializer list with the first n lines active
WifiInitializer(n) == Flatten(SubSeq(WifiLines, 1, n))

\* struct wifiData { String ssid; String pwd; };  aggregate initialization
\* of wifiData x[] from a flat list: two strings per element, a missing
\* trailing pwd is an empty String
wifiData(flat) ==
    [i \in 1..((Len(flat) + 1) \div 2) |->
        [ssid |-> flat[2*i - 1],
         pwd  |-> IF 2*i <= Len(flat) THEN flat[2*i] ELSE ""]]

\* variant: the first line commented out like the others
ssid_pwd_NoneActive == wifiData(WifiInitializer(0))

\* wifiData ssid_pwd [] = { "SSID_1", "PWD_1", };
ssid_pwd == wifiData(WifiInitializer(1))

-----------------------------------------------------------------------------
(* UserSettings.h : timeZones, tzCount, TZ_INTERVAL *)

\* char timeZones[][50]
TZ_ROW_SIZE == 50

timeZones ==
    << "EST5EDT,M3.2.0/2:00:00,M11.1.0/2:00:00",
       "AEST-10AEDT,M10.1.0/2:00:00,M4.1.0/2:00:00" >>

\* uint8_t tzCount = ELEMENTS ( timeZones );
tzCount ==
    ToUint8(ELEMENTS(SizeofArray(Len(timeZones), TZ_ROW_SIZE),
                     SizeofArray(1, TZ_ROW_SIZE)))

\* variant: an interval that does not divide 60
TZ_INTERVAL_Seven == 5 + 2

TZ_INTERVAL == 5

-----------------------------------------------------------------------------
(* UserSettings.h : colours and breakpoints *)

COLOR_NORMAL == "TFT_GREEN"
COLOR_MEDIUM == "TFT_YELLOW"
COLOR_HIGH   == "TFT_RED"

MEDIUM_K   == 4
HIGH_K     == 5
MEDIUM_A   == 20
HIGH_A     == 30
MEDIUM_SFI == 175
HIGH_SFI   == 200

-----------------------------------------------------------------------------
(* UserSettings.h : display order of the solar data items, CYCLE_TIME *)

\* variant: a number given twice and another skipped
SHOW_GMF_Repeated == 2 + 1

SHOW_SFI == 1
SHOW_GMF == 2
SHOW_S2N == 3
SHOW_AUR == 4
SHOW_SSN == 5

DATA_ITEMS == 5

CYCLE_TIME == 2

-----------------------------------------------------------------------------
(* TFT_eSPI setup files: the active #define lines of each, in file order.  *)
(* A define without a value has value 1 (as the preprocessor gives it for  *)
(* -D); HIGH is 1.                                                         *)

D(n, v) == [name |-> n, val |-> v]

\* ESP8266 board pin names, "Actually GPIO nn" in ESP8266_Generic_Setup.h
PIN_D3 == 0
PIN_D4 == 2
PIN_D5 == 14
PIN_D6 == 12
PIN_D7 == 13
PIN_D8 == 15

\* variant: both driver lines active and TFT_DC wired to the TFT_CS pin
CheapYellowDisplay_Slip ==
    << D("ILI9341_DRIVER", 1), D("ILI9341_2_DRIVER", 1),
       D("TFT_BL", 21), D("TFT_BACKLIGHT_ON", 1),
       D("TFT_MISO", 12), D("TFT_MOSI", 13), D("TFT_SCLK", 14),
       D("TFT_CS", 15), D("TFT_DC", 15), D("TFT_RST", -1),
       D("SPI_FREQUENCY", 40000000) >>

\* ESP32_Cheap_Yellow_Display.h
CheapYellowDisplay ==
    << D("ILI9341_DRIVER", 1),
       D("TFT_BL", 21), D("TFT_BACKLIGHT_ON", 1),
       D("TFT_MISO", 12), D("TFT_MOSI", 13), D("TFT_SCLK", 14),
       D("TFT_CS", 15), D("TFT_DC", 2), D("TFT_RST", -1),
       D("LOAD_GLCD", 1), D("LOAD_FONT2", 1), D("LOAD_FONT4", 1),
       D("LOAD_FONT6", 1), D("LOAD_FONT7", 1), D("LOAD_FONT8", 1),
       D("LOAD_GFXFF", 1), D("SMOOTH_FONT", 1),
       D("SPI_FREQUENCY", 40000000),
       D("SPI_READ_FREQUENCY", 20000000), D("SPI_TOUCH_FREQUENCY", 2500000),
       D("USE_HSPI_PORT", 1) >>

\* ESP32_NTP_Clock_Setup.h
NtpClockSetup ==
    << D("ILI9341_DRIVER", 1),
       D("TFT_MOSI", 23), D("TFT_SCLK", 18),
       D("TFT_CS", 5), D("TFT_DC", 2), D("TFT_RST", 15),
       D("LOAD_GLCD", 1), D("LOAD_FONT2", 1), D("LOAD_FONT4", 1),
       D("LOAD_FONT6", 1), D("LOAD_FONT7", 1), D("LOAD_FONT8", 1),
       D("LOAD_GFXFF", 1), D("SMOOTH_FONT", 1),
       D("SPI_FREQUENCY", 40000000),
       D("SPI_READ_FREQUENCY", 20000000), D("SPI_TOUCH_FREQUENCY", 2500000) >>

\* ESP8266_Generic_Setup.h
Esp8266GenericSetup ==
    << D("ILI9341_DRIVER", 1),
       D("TFT_MOSI", PIN_D7), D("TFT_SCLK", PIN_D5),
       D("TFT_CS", PIN_D8), D("TFT_DC", PIN_D3), D("TFT_RST", -1),
       D("LOAD_GLCD", 1), D("LOAD_FONT2", 1), D("LOAD_FONT4", 1),
       D("LOAD_FONT6", 1), D("LOAD_FONT7", 1), D("LOAD_FONT8", 1),
       D("LOAD_GFXFF", 1), D("SMOOTH_FONT", 1),
       D("SPI_FREQUENCY", 40000000),
       D("SPI_READ_FREQUENCY", 20000000), D("SPI_TOUCH_FREQUENCY", 2500000) >>

Boards == {"ESP32_Cheap_Yellow_Display", "ESP32_NTP_Clock_Setup",
           "ESP8266_Generic_Setup"}

SetupFile(b) ==
    CASE b = "ESP32_Cheap_Yellow_Display" -> CheapYellowDisplay
      [] b = "ESP32_NTP_Clock_Setup"      -> NtpClockSetup
      [] b = "ESP8266_Generic_Setup"      -> Esp8266GenericSetup

\* the display driver selections the setup files offer
DriverNames == {"ILI9341_DRIVER", "ILI9341_2_DRIVER"}

\* the display signals of the setup files
PinSignals == {"TFT_MISO", "TFT_MOSI", "TFT_SCLK", "TFT_CS", "TFT_DC",
               "TFT_RST", "TFT_BL"}

\* number of active #define lines of a file that define one of the names
DefineCount(file, names) ==
    Cardinality({i \in DOMAIN file : file[i].name \in names})

\* the signals of a file that are given a real pin
WiredSignals(file) ==
    {s \in PinSignals :
        \E i \in DOMAIN file : file[i].name = s /\ file[i].val # -1}

\* the pins a file gives to a signal (one per active #define of the signal)
PinsOf(file, s) ==
    {file[i].val : i \in {j \in DOMAIN file : file[j].name = s}}

-----------------------------------------------------------------------------
(* Documented behaviour of the firmware that reads UserSettings.h *)

\* the entry tried after entry i of a list of n failed: "cycle through them
\* in order until it gets a good connection"
NextNet_Skip(i, n) == (i + 2) % n

NextNet(i, n) == (i + 1) % n

Items == {"SFI", "GMF", "S2N", "AUR", "SSN"}

\* the SHOW_* value of each solar data item
Show(it) ==
    CASE it = "SFI" -> SHOW_SFI
      [] it = "GMF" -> SHOW_GMF
      [] it = "S2N" -> SHOW_S2N
      [] it = "AUR" -> SHOW_AUR
      [] it = "SSN" -> SHOW_SSN

\* 'BuildDataItemList': place k (1..DATA_ITEMS) holds the item whose SHOW_*
\* value is k; "none" when no item has that value
BuildDataItemList ==
    [k \in 1..DATA_ITEMS |->
        IF \E it \in Items : Show(it) = k
        THEN CHOOSE it \in Items : Show(it) = k
        ELSE "none"]

-----------------------------------------------------------------------------
(* Initial states *)

\* the firmware before setup() has tried any network
FwInit ==
    /\ board \in Boards
    /\ wifiList \in {wifiData(WifiInitializer(n)) : n \in 1..MaxNets}
    /\ wifiIndex = 0
    /\ wifiStatus = "idle"
    /\ running = FALSE
    /\ sec = 0
    /\ tzIndex = 0
    /\ tzShown = 0
    /\ tzWhole = FALSE
    /\ dataIndex = 0
    /\ dataShown = 0
    /\ dataWhole = FALSE

\* the shipped build: ssid_pwd as in UserSettings.h, nothing started
FwShipped ==
    /\ FwInit
    /\ board = "ESP32_NTP_Clock_Setup"
    /\ wifiList = ssid_pwd

\* the global  uint8_t tzCount = ELEMENTS ( timeZones )
ElemShipped ==
    /\ arrRows = Len(timeZones)
    /\ arrRowSize = TZ_ROW_SIZE
    /\ elemCount = ELEMENTS(SizeofArray(Len(timeZones), TZ_ROW_SIZE),
                            SizeofArray(1, TZ_ROW_SIZE))
    /\ elemStored = tzCount

Init == FwInit /\ ElemShipped

-----------------------------------------------------------------------------
(* Firmware steps *)

clockVars == <<running, sec, tzIndex, tzShown, tzWhole,
               dataIndex, dataShown, dataWhole>>

\* setup() starts with the first entry of ssid_pwd
WifiBegin ==
    /\ wifiStatus = "idle"
    /\ wifiIndex' = 0
    /\ wifiStatus' = "trying"
    /\ UNCHANGED <<board, wifiList, clockVars, elemVars>>

\* the entry being tried gives no connection
WifiFail ==
    /\ wifiStatus = "trying"
    /\ wifiStatus' = "failed"
    /\ UNCHANGED <<board, wifiList, wifiIndex, clockVars, elemVars>>

\* after a failure the next entry is tried
WifiNext ==
    /\ wifiStatus = "failed"
    /\ wifiIndex' = NextNet(wifiIndex, Len(wifiList))
    /\ wifiStatus' = "trying"
    /\ UNCHANGED <<board, wifiList, clockVars, elemVars>>

\* the entry being tried gives a good connection
WifiGood ==
    /\ wifiStatus = "trying"
    /\ wifiStatus' = "connected"
    /\ UNCHANGED <<board, wifiList, wifiIndex, clockVars, elemVars>>

DataOn == CYCLE_TIME # 0 /\ DATA_ITEMS # 0

\* variant: the zone rotates one second late each time
TzRotates_Late(s) == s % (TZ_INTERVAL + 1) = 0

\* the zone changes when the second of the minute is a multiple of
\* TZ_INTERVAL ("should be a number that divides evenly into 60")
TzRotates(s) == s % TZ_INTERVAL = 0

\* variant: the item rotates one second late each time
DataRotates_Late(s) == DataOn /\ s % (CYCLE_TIME + 1) = 0

\* the item changes when the second of the minute is a multiple of
\* CYCLE_TIME ("evenly divides into 60 or one item will get a shorter time")
DataRotates(s) == DataOn /\ s % CYCLE_TIME = 0

\* the clock is set from NTP and the first zone and item go on screen
NtpSync ==
    /\ wifiStatus = "connected"
    /\ ~running
    /\ running' = TRUE
    /\ sec' \in 0..59
    /\ tzIndex' = 0
    /\ tzShown' = 0
    /\ tzWhole' = TzRotates(sec')
    /\ dataIndex' = 0
    /\ dataShown' = 0
    /\ dataWhole' = DataRotates(sec')
    /\ UNCHANGED <<board, wifiList, wifiIndex, wifiStatus, elemVars>>

\* one second passes; the zone changes every TZ_INTERVAL-th second of the
\* minute and the solar data item every CYCLE_TIME-th
Tick ==
    /\ running
    /\ LET s == (sec + 1) % 60
       IN /\ sec' = s
          /\ IF TzRotates(s)
             THEN /\ tzIndex' = (tzIndex + 1) % tzCount
                  /\ tzShown' = 0
                  /\ tzWhole' = TRUE
             ELSE /\ tzShown' = tzShown + 1
                  /\ UNCHANGED <<tzIndex, tzWhole>>
          /\ IF DataRotates(s)
             THEN /\ dataIndex' = (dataIndex + 1) % DATA_ITEMS
                  /\ dataShown' = 0
                  /\ dataWhole' = TRUE
             ELSE /\ dataShown' = dataShown + 1
                  /\ UNCHANGED <<dataIndex, dataWhole>>
    /\ UNCHANGED <<running, board, wifiList, wifiIndex, wifiStatus,
                   elemVars>>

Next ==
    \/ WifiBegin
    \/ WifiFail
    \/ WifiNext
    \/ WifiGood
    \/ NtpSync
    \/ Tick

Spec == Init /\ [][Next]_vars

\* loop() runs for ever: a second that can pass does pass
FairSpec == Spec /\ WF_vars(Tick)

-----------------------------------------------------------------------------
(* ELEMENTS applied to arrays of any number of rows and row size *)

RowSizes == (1..MaxRowSize) \cup {TZ_ROW_SIZE}

InitElements ==
    /\ FwShipped
    /\ arrRows \in 1..MaxRows
    /\ arrRowSize \in RowSizes
    /\ elemCount = -1
    /\ elemStored = -1

\* uint8_t n = ELEMENTS ( x );
ApplyElements ==
    /\ elemCount = -1
    /\ elemCount' = ELEMENTS(SizeofArray(arrRows, arrRowSize),
                             SizeofArray(1, arrRowSize))
    /\ elemStored' = ToUint8(elemCount')
    /\ UNCHANGED <<arrRows, arrRowSize, fwVars>>

SpecElements == InitElements /\ [][ApplyElements]_vars

-----------------------------------------------------------------------------
(* Properties *)

ShownItems == {it \in Items : Show(it) # 0}

Max(S) == CHOOSE x \in S : \A y \in S : y <= x

\* C1: the non-zero SHOW_* values are pairwise distinct and are exactly
\* 1..DATA_ITEMS, DATA_ITEMS is the highest value assigned (0 when all are
\* 0), and so the item on screen is always one of the items of the list.
C1_DisplayOrderConsistent ==
    /\ \A a, b \in ShownItems : a # b => Show(a) # Show(b)
    /\ {Show(it) : it \in ShownItems} = 1..DATA_ITEMS
    /\ DATA_ITEMS = Max({0} \cup {Show(it) : it \in Items})
    /\ running /\ DataOn =>
          /\ dataIndex \in 0..(DATA_ITEMS - 1)
          /\ BuildDataItemList[dataIndex + 1] \in ShownItems
          /\ Show(BuildDataItemList[dataIndex + 1]) = dataIndex + 1

\* the item given the highest number is on screen
C1_Witness ==
    /\ running
    /\ dataIndex = DATA_ITEMS - 1
    /\ BuildDataItemList[dataIndex + 1] = "SSN"

\* C2: ssid_pwd is never empty: it has at least one entry, entry 0 is the
\* pair of the first initializer line, every entry has an ssid and a pwd
\* field, and the entry the firmware tries is an entry of the list.
C2_WifiListNonEmpty ==
    /\ Len(ssid_pwd) >= 1
    /\ ssid_pwd[1] = [ssid |-> "SSID_1", pwd |-> "PWD_1"]
    /\ \A i \in DOMAIN ssid_pwd : DOMAIN ssid_pwd[i] = {"ssid", "pwd"}
    /\ Len(wifiList) >= 1
    /\ \A i \in DOMAIN wifiList : DOMAIN wifiList[i] = {"ssid", "pwd"}
    /\ wifiIndex + 1 \in DOMAIN wifiList

\* the shipped list is in use and its only entry is being tried
C2_Witness ==
    /\ wifiList = ssid_pwd
    /\ wifiStatus = "trying"
    /\ wifiIndex = 0
    /\ wifiList[wifiIndex + 1].ssid = "SSID_1"

\* an entry starts being tried in this step
TryStarts == wifiStatus' = "trying" /\ wifiStatus # "trying"

\* C3: the entries of ssid_pwd are tried in array order from index 0: the
\* first entry tried is entry 0, any other entry is tried only right after
\* the entry before it failed (after the last one the scan starts again at
\* entry 0), and once an entry gave a good connection no entry is tried.
C3_TriedInOrder ==
    [][ /\ TryStarts =>
              \/ wifiStatus = "idle" /\ wifiIndex' = 0
              \/ /\ wifiStatus = "failed"
                 /\ \/ wifiIndex' = wifiIndex + 1
                    \/ wifiIndex' = 0 /\ wifiIndex = Len(wifiList) - 1
        /\ ~TryStarts => wifiIndex' = wifiIndex
        /\ wifiStatus = "connected" =>
              wifiStatus' = "connected" /\ wifiIndex' = wifiIndex
      ]_vars

\* the third entry gave the connection, after the first two had failed
C3_Witness ==
    /\ Len(wifiList) = 3
    /\ wifiStatus = "connected"
    /\ wifiIndex = 2
    /\ running

\* C4: tzCount is the number of entries of timeZones and is in 1..255;
\* ELEMENTS gives the number of rows of an array whatever the row size, and
\* a count in 1..255 is unchanged by being stored in a uint8_t.
C4_TzCountIsEntryCount ==
    /\ tzCount = Len(timeZones)
    /\ tzCount \in 1..255
    /\ elemCount # -1 =>
          /\ elemCount = arrRows
          /\ arrRows \in 1..255 => elemStored = arrRows

\* ELEMENTS was applied to an array of 255 rows of 50 bytes
C4_Witness ==
    /\ arrRows = 255
    /\ arrRowSize = TZ_ROW_SIZE
    /\ elemCount = 255
    /\ elemStored = 255

\* the zone on screen changes in this step
TzSwitch == running /\ running' /\ sec' # sec /\ tzShown' = 0

\* the zones are shown in list order, wrapping from the last to the first;
\* the index shown is always in 0..tzCount-1 and is an entry of timeZones
TzOrder ==
    /\ [](tzIndex \in 0..(tzCount - 1) /\ tzIndex + 1 \in DOMAIN timeZones)
    /\ [][ /\ TzSwitch => tzIndex' = (tzIndex + 1) % tzCount
           /\ ~TzSwitch => tzIndex' = tzIndex ]_vars

\* every zone is shown again and again
TzRecur == \A i \in 0..(tzCount - 1) : [](running => <>(tzIndex = i))

C6_TzIntervalDivides60 ==
    /\ TZ_INTERVAL \in 1..30
    /\ 60 % TZ_INTERVAL = 0
    /\ running /\ tzWhole /\ sec = 59 => tzShown = TZ_INTERVAL - 1

\* the minute ends with a zone that has been shown for TZ_INTERVAL seconds
C6_Witness ==
    /\ running
    /\ tzWhole
    /\ sec = 59
    /\ tzShown = TZ_INTERVAL - 1

\* the solar data item on screen changes in this step
DataSwitch == running /\ running' /\ sec' # sec /\ dataShown' = 0

C9_SetupFilesConsistent ==
    /\ board \in Boards
    /\ \A b \in Boards :
          LET f == SetupFile(b) IN
          /\ DefineCount(f, DriverNames) = 1
          /\ DefineCount(f, {"SPI_FREQUENCY"}) = 1
          /\ \A s \in WiredSignals(f) : Cardinality(PinsOf(f, s)) = 1
          /\ \A s, t \in WiredSignals(f) :
                s # t => PinsOf(f, s) \cap PinsOf(f, t) = {}

\* the clock runs on the Cheap Yellow Display, whose six wired signals
\* (back-light included, reset not) are on six pins
C9_Witness ==
    /\ running
    /\ board = "ESP32_Cheap_Yellow_Display"
    /\ WiredSignals(SetupFile(board)) =
          {"TFT_BL", "TFT_MISO", "TFT_MOSI", "TFT_SCLK", "TFT_CS", "TFT_DC"}
    /\ Cardinality(UNION {PinsOf(SetupFile(board), s) :
                            s \in WiredSignals(SetupFile(board))}) = 6

=============================================================================
